---- MODULE Spec2Model ----
(***************************************************************************)
(* Live broadcast engine of src/app.py: the producer task                  *)
(* (continuous_radio_loop / stream_audio_to_buffer), the decoder process   *)
(* it drives, the circular buffer radio_state.audio_chunks, the playlist,  *)
(* the control endpoints and the per-listener generator                    *)
(* generate_live_audio.                                                    *)
(*                                                                         *)
(* Everything runs on one asyncio event loop, so a step of the model is    *)
(* the code that runs between two suspension points (await / yield).       *)
(* `async with radio_state.buffer_lock` never suspends: the lock is only   *)
(* ever held across code without an await, so it is free whenever a task   *)
(* runs.                                                                   *)
(***************************************************************************)
EXTENDS Naturals, Integers, Sequences, FiniteSets, TLC

\* ------------------------------------------------------------------ sizes
\* The deques and counters of the program, scaled down so that the cases
\* "buffer full", "playlist full", "poll timeout" are reached quickly.
\* deque(maxlen=500) of src/app.py:34
AudioChunksMaxLen == 2
\* deque(maxlen=100) of src/app.py:30
PlaylistMaxLen == 2
\* len(audio_chunks) - 10 of src/app.py:696
JoinBack == 1
\* chunk_count % 10 of src/app.py:399
EventEvery == 2
\* wait_count > 30 of src/app.py:506
MaxWait == 1
\* number of songs one call of add_default_songs can add (5 or 2 in the code)
MaxDefaults == 2
\* chunks the decoder processes together may have appended or in flight
MaxProduced == 3
\* chunks a decoder's stdout pipe holds before the decoder blocks
PipeCap == 1

\* listener sessions that exist, and the one that connects in SpecBroadcast
Listeners == {1, 2}
Solo == {1}

\* Track objects are told apart by an id; ids of objects no longer referenced
\* anywhere are reused
TrackIds == 1..(PlaylistMaxLen + 2)

NoTrack == [id |-> 0, kind |-> "none"]
\* a Popen object: the track stream_audio_to_buffer reads it for (0 once that
\* call has returned), whether the child is "alive",
\* "terminating" (signalled by terminate(), not yet gone), "exited" (gone by
\* itself, returncode 0 or an error) or "killed" (gone by the signal), and the
\* chunks in its stdout pipe that nobody has read yet
NoProcess == [track |-> 0, state |-> "none", pipe |-> 0]
\* a chunk appended before the last clear
Older == 0 - 1
NoJoin == [cursor |-> 0, latest |-> 0, joined |-> FALSE]

VARIABLES
  playlist,        \* radio_state.playlist: sequence of tracks
  current_track,   \* radio_state.current_track (NoTrack for None)
  is_streaming,    \* radio_state.is_streaming
  stream_process,  \* radio_state.stream_process (NoProcess for None)
  audio_chunks,    \* radio_state.audio_chunks: sequence of chunks
  chunk_event,     \* radio_state.chunk_event is set
  listeners,       \* radio_state.listeners
  streaming_task,  \* "none" | "running" | "done"
  cancel_req,      \* streaming_task.cancel() was called and not yet delivered
  ppc,             \* where the producer task is suspended
  chunk_count,     \* local chunk_count of stream_audio_to_buffer
  wait_count,      \* local wait_count of continuous_radio_loop
  stop_pc,         \* stop_continuous_stream: "idle" | "awaiting" | "ready"
  lpc,             \* per listener: "off" | "connected" | "loop" | "wait"
  buffer_position, \* per listener: local buffer_position
  \* history (not program state)
  produced,        \* chunks appended since the buffer was last cleared; the
                   \* n-th of them is the chunk n
  last_real,       \* per listener: the last real chunk delivered, 0 if none,
                   \* Older if it was appended before the last clear
  join_info        \* per listener: cursor and buffer size at its join, until
                   \* its next step

vars == <<playlist, current_track, is_streaming, stream_process, audio_chunks,
          chunk_event, listeners, streaming_task, cancel_req, ppc, chunk_count,
          wait_count, stop_pc, lpc, buffer_position, produced, last_real,
          join_info>>

ctlVars == <<playlist, current_track, is_streaming, streaming_task, cancel_req,
             ppc, wait_count, stop_pc>>
decodeVars == <<stream_process, chunk_count>>
bufferVars == <<audio_chunks, chunk_event, produced>>
listenerVars == <<lpc, buffer_position, last_real, join_info, listeners>>

Max(a, b) == IF a >= b THEN a ELSE b
Min(a, b) == IF a <= b THEN a ELSE b

\* deque.append on a deque with maxlen: a full deque drops its leftmost item
DequeAppend(q, x, maxlen) ==
  IF Len(q) >= maxlen THEN Tail(q) \o <<x>> ELSE q \o <<x>>

Ids(pl) == {pl[i].id : i \in DOMAIN pl}

\* a track object not referenced by the playlist pl or current_track
FreshId(pl) ==
  LET used == Ids(pl) \cup {current_track.id}
  IN  CHOOSE i \in TrackIds \ used : \A j \in TrackIds \ used : i <= j

\* playlist.append of a newly built track dict
AppendNew(pl, kind) ==
  DequeAppend(pl, [id |-> FreshId(pl), kind |-> kind], PlaylistMaxLen)

Init ==
  /\ playlist = <<>>
  /\ current_track = NoTrack
  /\ is_streaming = FALSE
  /\ stream_process = NoProcess
  /\ audio_chunks = <<>>
  /\ chunk_event = FALSE
  /\ listeners = {}
  /\ streaming_task = "none"
  /\ cancel_req = FALSE
  /\ ppc = "none"
  /\ chunk_count = 0
  /\ wait_count = 0
  /\ stop_pc = "idle"
  /\ lpc = [l \in Listeners |-> "off"]
  /\ buffer_position = [l \in Listeners |-> 0]
  /\ produced = 0
  /\ last_real = [l \in Listeners |-> 0]
  /\ join_info = [l \in Listeners |-> NoJoin]

\* ------------------------------------------------------------ control plane

\* add_default_songs: appends n filler tracks (the API path appends the songs
\* whose lookup succeeds, the fallback path two fixed songs); it never leaves
\* the playlist empty
RECURSIVE AddDefaultSongs(_, _)
AddDefaultSongs(pl, n) ==
  IF n = 0 THEN pl ELSE AddDefaultSongs(AppendNew(pl, "filler"), n - 1)

DefaultCounts == 1..MaxDefaults

\* audio_chunks.clear(); chunks are numbered anew, and what listeners were
\* delivered is remembered as older than any chunk to come
ClearBuffer ==
  /\ audio_chunks' = <<>>
  /\ produced' = 0
  /\ last_real' = [l \in Listeners |-> IF last_real[l] = 0 THEN 0 ELSE Older]

\* a start that creates a task without looking at the one it has
StartWithoutCheck ==
  /\ ClearBuffer
  /\ streaming_task' = "running"
  /\ ppc' = "init"

\* start_continuous_stream: a no-op while the task has not finished, else
\* clears the buffer and creates the task (which first runs at a later step)
StartContinuousStream ==
  IF streaming_task = "running"
  THEN UNCHANGED <<audio_chunks, produced, last_real, streaming_task, ppc>>
  ELSE /\ ClearBuffer
       /\ streaming_task' = "running"
       /\ ppc' = "init"

\* POST /api/play, from the append on (the lookups before it touch no state)
AddToPlaylist ==
  /\ playlist' = AppendNew(playlist, "user")
  /\ IF ~is_streaming
     THEN StartContinuousStream
     ELSE UNCHANGED <<audio_chunks, produced, last_real, streaming_task, ppc>>
  /\ UNCHANGED <<current_track, is_streaming, cancel_req, wait_count, stop_pc,
                 chunk_event, decodeVars, lpc, buffer_position, join_info,
                 listeners>>

\* POST /api/start (startup_event does the same when it could add songs)
StartStream ==
  /\ IF playlist = <<>>
     THEN \E n \in DefaultCounts : playlist' = AddDefaultSongs(playlist, n)
     ELSE UNCHANGED playlist
  /\ StartContinuousStream
  /\ UNCHANGED <<current_track, is_streaming, cancel_req, wait_count, stop_pc,
                 chunk_event, decodeVars, lpc, buffer_position, join_info,
                 listeners>>

\* POST /api/add-defaults
AddDefaults ==
  /\ \E n \in DefaultCounts : playlist' = AddDefaultSongs(playlist, n)
  /\ UNCHANGED <<current_track, is_streaming, streaming_task, cancel_req, ppc,
                 wait_count, stop_pc, bufferVars, decodeVars, listenerVars>>

\* a signal sent whether or not the child is still there
SignalAlways(p) ==
  IF p.state = "none" THEN p ELSE [p EXCEPT !.state = "terminating"]

\* Popen.terminate: signals a child that is still there
Terminate(p) ==
  IF p.state = "alive" THEN [p EXCEPT !.state = "terminating"] ELSE p

\* a skip that leaves the process alone
SkipLeavesProcess(p) == p

\* lines 807-808 of skip_track
SkipProcess(p) == IF p.state \in {"alive", "terminating"} THEN Terminate(p) ELSE p

\* a skip that is carried out whether or not the stream runs
SkipUnguarded ==
  /\ stream_process' = SkipProcess(stream_process)
  /\ UNCHANGED <<ctlVars, chunk_count, bufferVars, listenerVars>>

\* POST /api/skip while streaming (otherwise it raises 400 and changes nothing)
SkipTrack ==
  /\ is_streaming
  /\ stream_process' = SkipProcess(stream_process)
  /\ UNCHANGED <<ctlVars, chunk_count, bufferVars, listenerVars>>

\* a stop whose tail forgets to reset current_track
StopTailKeepsTrack ==
  /\ UNCHANGED current_track
  /\ ClearBuffer
  /\ playlist' = <<>>

\* stop_continuous_stream after its await, followed by stop_stream's
\* playlist.clear()
StopTail ==
  /\ current_track' = NoTrack
  /\ ClearBuffer
  /\ playlist' = <<>>

\* POST /api/stop with a task to cancel: up to `await streaming_task`
StopBegin ==
  /\ stop_pc = "idle"
  /\ streaming_task = "running"
  /\ is_streaming' = FALSE
  /\ stream_process' = Terminate(stream_process)
  /\ cancel_req' = TRUE
  /\ stop_pc' = "awaiting"
  /\ UNCHANGED <<playlist, current_track, streaming_task, ppc, wait_count,
                 chunk_count, bufferVars, listenerVars>>

\* POST /api/stop resumed once the cancelled task has finished
StopFinish ==
  /\ stop_pc = "ready"
  /\ stop_pc' = "idle"
  /\ StopTail
  /\ UNCHANGED <<is_streaming, streaming_task, cancel_req, ppc, wait_count,
                 chunk_event, decodeVars, lpc, buffer_position, join_info,
                 listeners>>

\* POST /api/stop with no task or a finished one: nothing to wait for
StopIdle ==
  /\ stop_pc = "idle"
  /\ streaming_task # "running"
  /\ is_streaming' = FALSE
  /\ stream_process' = Terminate(stream_process)
  /\ StopTail
  /\ UNCHANGED <<streaming_task, cancel_req, ppc, wait_count, stop_pc,
                 chunk_event, chunk_count, lpc, buffer_position, join_info,
                 listeners>>

\* ------------------------------------------------------------ decoder process

\* the ffmpeg child writes one more chunk to its stdout pipe
DecoderWrite ==
  /\ stream_process.state = "alive"
  /\ stream_process.pipe < PipeCap
  /\ produced + stream_process.pipe < MaxProduced
  /\ stream_process' = [stream_process EXCEPT !.pipe = @ + 1]
  /\ UNCHANGED <<ctlVars, chunk_count, bufferVars, listenerVars>>

\* the child is gone: end of input or a crash, or SIGTERM taking effect
DecoderExit ==
  /\ stream_process.state \in {"alive", "terminating"}
  /\ stream_process' = [stream_process EXCEPT
                          !.state = IF @ = "alive" THEN "exited" ELSE "killed"]
  /\ UNCHANGED <<ctlVars, chunk_count, bufferVars, listenerVars>>

\* ------------------------------------------------------------ producer task

ProducerRuns(pc) ==
  /\ streaming_task = "running"
  /\ ppc = pc
  /\ ~cancel_req

\* a dequeue from the wrong end
DequeueNewest(pl) ==
  /\ current_track' = pl[Len(pl)]
  /\ playlist' = SubSeq(pl, 1, Len(pl) - 1)
  /\ ppc' = "resolve"
  /\ wait_count' = 0
  /\ UNCHANGED streaming_task

\* lines 520-522: popleft and make the track current (wait_count is not read
\* again before line 500 resets it)
Dequeue(pl) ==
  /\ current_track' = Head(pl)
  /\ playlist' = Tail(pl)
  /\ ppc' = "resolve"
  /\ wait_count' = 0
  /\ UNCHANGED streaming_task

\* the loop leaves on `not is_streaming`: the task finishes
LoopExit(pl) ==
  /\ streaming_task' = "done"
  /\ ppc' = "none"
  /\ playlist' = pl
  /\ wait_count' = 0
  /\ UNCHANGED current_track

\* lines 497-522: one pass from the head of `while radio_state.is_streaming`
\* to the next suspension point, with playlist value pl
LoopHead(pl, streaming) ==
  IF ~streaming THEN LoopExit(pl)
  ELSE IF pl = <<>>
       THEN /\ ppc' = "poll"
            /\ playlist' = pl
            /\ wait_count' = 0
            /\ UNCHANGED <<current_track, streaming_task>>
       ELSE Dequeue(pl)

\* the first run of the task, lines 487-495 and, with songs queued, on to the
\* first dequeue. A stop_continuous_stream that was waiting for the previous
\* task resumes before a task created later first runs.
ProducerInit ==
  /\ ProducerRuns("init")
  /\ stop_pc # "ready"
  /\ is_streaming' = TRUE
  /\ IF playlist = <<>>
     THEN /\ \E n \in DefaultCounts : playlist' = AddDefaultSongs(playlist, n)
          /\ ppc' = "loop"
          /\ UNCHANGED <<current_track, streaming_task, wait_count>>
     ELSE LoopHead(playlist, TRUE)
  /\ UNCHANGED <<cancel_req, stop_pc, bufferVars, decodeVars, listenerVars>>

\* back at the loop head after one of the sleeps (lines 495, 536)
ProducerLoop ==
  /\ ProducerRuns("loop")
  /\ LoopHead(playlist, is_streaming)
  /\ UNCHANGED <<is_streaming, cancel_req, stop_pc, bufferVars, decodeVars,
                 listenerVars>>

\* a wait loop that never gives up
PollNeverTimesOut(count) == FALSE

\* line 506: the wait loop gives up
PollTimedOut(count) == count > MaxWait

\* lines 504-522: after a one-second sleep of the wait loop
ProducerPoll ==
  /\ ProducerRuns("poll")
  /\ IF PollTimedOut(wait_count + 1)
     THEN \E n \in DefaultCounts :
            IF ~is_streaming
            THEN LoopExit(AddDefaultSongs(playlist, n))
            ELSE Dequeue(AddDefaultSongs(playlist, n))
     ELSE IF playlist = <<>> /\ is_streaming
          THEN /\ wait_count' = wait_count + 1
               /\ UNCHANGED <<playlist, current_track, streaming_task, ppc>>
          ELSE IF ~is_streaming
               THEN LoopExit(playlist)
               ELSE Dequeue(playlist)
  /\ UNCHANGED <<is_streaming, cancel_req, stop_pc, bufferVars, decodeVars,
                 listenerVars>>

\* line 527 returned a URL and Popen succeeded (lines 373-383)
ProducerSpawn ==
  /\ ProducerRuns("resolve")
  /\ stream_process' = [track |-> current_track.id, state |-> "alive", pipe |-> 0]
  /\ chunk_count' = 0
  /\ ppc' = "decode"
  /\ UNCHANGED <<playlist, current_track, is_streaming, streaming_task,
                 cancel_req, wait_count, stop_pc, bufferVars, listenerVars>>

\* lines 532-535: no URL, the track goes back to the end of the playlist
Requeue(pl, track) == DequeAppend(pl, track, PlaylistMaxLen)

\* line 527 returned None (lines 532-536)
ProducerResolveFail ==
  /\ ProducerRuns("resolve")
  /\ playlist' = Requeue(playlist, current_track)
  /\ ppc' = "loop"
  /\ UNCHANGED <<current_track, is_streaming, streaming_task, cancel_req,
                 wait_count, stop_pc, bufferVars, decodeVars, listenerVars>>

\* the exception of a failed Popen escapes and ends the task
SpawnFailEscapes ==
  /\ ProducerRuns("resolve")
  /\ LoopExit(playlist)
  /\ UNCHANGED <<is_streaming, cancel_req, stop_pc, bufferVars, decodeVars,
                 listenerVars>>

\* line 527 returned a URL but Popen raised: lines 418-424 absorb it and the
\* loop goes on with the next track
ProducerSpawnFail ==
  /\ ProducerRuns("resolve")
  /\ LoopHead(playlist, is_streaming)
  /\ UNCHANGED <<is_streaming, cancel_req, stop_pc, bufferVars, decodeVars,
                 listenerVars>>

\* a buffer that is never trimmed
AppendChunkUnbounded(chunks, n) == chunks \o <<n>>

\* a buffer filled from the left
AppendChunkLeft(chunks, n) ==
  IF Len(chunks) >= AudioChunksMaxLen
  THEN <<n>> \o SubSeq(chunks, 1, Len(chunks) - 1)
  ELSE <<n>> \o chunks

\* lines 397-398: the append under the lock; the n-th chunk produced is n
AppendChunk(chunks, n) == DequeAppend(chunks, n, AudioChunksMaxLen)

\* lines 399-400: whether the append of the count-th chunk of a track sets
\* chunk_event
SetsEvent(count) == count % EventEvery = 0

\* line 384: the condition of the read loop
KeepsReading == is_streaming /\ stream_process.state \notin {"exited", "killed"}

\* lines 384-407: the loop condition holds and read(4096) returns a chunk
ProducerReadChunk ==
  /\ ProducerRuns("decode")
  /\ KeepsReading
  /\ stream_process.pipe > 0
  /\ stream_process' = [stream_process EXCEPT !.pipe = @ - 1]
  /\ chunk_count' = chunk_count + 1
  /\ produced' = produced + 1
  /\ audio_chunks' = AppendChunk(audio_chunks, produced + 1)
  /\ chunk_event' = (SetsEvent(chunk_count + 1) \/ chunk_event)
  /\ UNCHANGED <<ctlVars, listenerVars>>

\* stream_audio_to_buffer returns: the finally clause of lines 422-424; the
\* pipe of the process is not read again, what was left in it is dropped
LeaveDecoder(p) == [Terminate(p) EXCEPT !.pipe = 0, !.track = 0]

\* lines 384, 409-424, 539 and on to the loop head: the loop condition fails
\* (the process is gone, or streaming was switched off)
ProducerTrackEnd ==
  /\ ProducerRuns("decode")
  /\ ~KeepsReading
  /\ stream_process' = LeaveDecoder(stream_process)
  /\ chunk_count' = 0
  /\ LoopHead(playlist, is_streaming)
  /\ UNCHANGED <<is_streaming, cancel_req, stop_pc, bufferVars, listenerVars>>

\* CancelledError is thrown into the task where it is suspended; inside
\* stream_audio_to_buffer the finally clause terminates the process
ProducerCancelled ==
  /\ streaming_task = "running"
  /\ cancel_req
  /\ cancel_req' = FALSE
  /\ streaming_task' = "done"
  /\ ppc' = "none"
  /\ stop_pc' = "ready"
  /\ stream_process' = IF ppc = "decode" THEN LeaveDecoder(stream_process)
                       ELSE stream_process
  /\ chunk_count' = 0
  /\ wait_count' = 0
  /\ UNCHANGED <<playlist, current_track, is_streaming, bufferVars, listenerVars>>

\* ------------------------------------------------------------ listener sessions

\* joining at the very end of the buffer
InitialPositionAtEnd(len) == len

\* line 696: where a joining listener starts reading
InitialPosition(len) == Max(0, len - JoinBack)

\* lines 688-691 of stream_radio: the session is registered and the response
\* with the generator is returned
Connect(l) ==
  /\ lpc[l] = "off"
  /\ listeners' = listeners \cup {l}
  /\ lpc' = [lpc EXCEPT ![l] = "connected"]
  /\ last_real' = [last_real EXCEPT ![l] = 0]
  /\ join_info' = [join_info EXCEPT ![l] = NoJoin]
  /\ UNCHANGED <<buffer_position, ctlVars, decodeVars, bufferVars>>

\* a teardown that forgets the listener set
DiscardNothing(set, l) == set

\* a discard that empties the listener set
DiscardAll(set, l) == {}

\* lines 720, 723, 725: listeners.discard(listener_id)
Discard(set, l) == set \ {l}

\* line 704: there is buffered audio ahead of position pos
\* a size check that is off by one
HasAudioAheadOrAtEnd(pos) == pos <= Len(audio_chunks)

HasAudioAhead(pos) == pos < Len(audio_chunks)

\* line 706: audio_chunks[i] of a non-negative i raises IndexError unless
\* i < len(audio_chunks)
ValidIndex(pos) == pos >= 0 /\ pos < Len(audio_chunks)

\* lines 705-708: the chunk read at position pos, and the position after it
ReadAt(pos) == audio_chunks[pos + 1]
Advance(pos) == pos + 1

\* lines 698-716: one pass of `while radio_state.is_streaming` for a listener
\* whose buffer_position is pos, up to its next suspension point
ListenerPass(l, pos) ==
  IF ~is_streaming
  THEN \* the generator returns; the finally clause discards the id
       /\ lpc' = [lpc EXCEPT ![l] = "off"]
       /\ listeners' = Discard(listeners, l)
       /\ buffer_position' = [buffer_position EXCEPT ![l] = pos]
       /\ UNCHANGED last_real
  ELSE IF HasAudioAhead(pos)
       THEN IF ValidIndex(pos)
            THEN \* audio_chunks[buffer_position] is yielded
                 /\ lpc' = [lpc EXCEPT ![l] = "loop"]
                 /\ buffer_position' =
                      [buffer_position EXCEPT ![l] = Advance(pos)]
                 /\ last_real' = [last_real EXCEPT ![l] = ReadAt(pos)]
                 /\ UNCHANGED listeners
            ELSE \* IndexError, caught at line 721: the id is discarded and
                 \* the generator ends
                 /\ lpc' = [lpc EXCEPT ![l] = "off"]
                 /\ listeners' = Discard(listeners, l)
                 /\ buffer_position' = [buffer_position EXCEPT ![l] = pos]
                 /\ UNCHANGED last_real
       ELSE \* suspended in wait_for(chunk_event.wait(), 1.0)
            /\ lpc' = [lpc EXCEPT ![l] = "wait"]
            /\ buffer_position' = [buffer_position EXCEPT ![l] = pos]
            /\ UNCHANGED <<last_real, listeners>>

\* the generator starts: line 696, then the first pass of the loop
ListenerBegin(l) ==
  /\ lpc[l] = "connected"
  /\ join_info' = [join_info EXCEPT ![l] =
                     [cursor |-> InitialPosition(Len(audio_chunks)),
                      latest |-> Len(audio_chunks), joined |-> TRUE]]
  /\ ListenerPass(l, InitialPosition(Len(audio_chunks)))
  /\ UNCHANGED <<ctlVars, decodeVars, bufferVars>>

\* resumed after a yield
ListenerStep(l) ==
  /\ lpc[l] = "loop"
  /\ ListenerPass(l, buffer_position[l])
  /\ join_info' = [join_info EXCEPT ![l] = NoJoin]
  /\ UNCHANGED <<ctlVars, decodeVars, bufferVars>>

\* lines 712-713: the event is set, the wait returns and the event is cleared
ListenerWake(l) ==
  /\ lpc[l] = "wait"
  /\ chunk_event
  /\ chunk_event' = FALSE
  /\ lpc' = [lpc EXCEPT ![l] = "loop"]
  /\ join_info' = [join_info EXCEPT ![l] = NoJoin]
  /\ UNCHANGED <<buffer_position, last_real, listeners, ctlVars, decodeVars,
                 audio_chunks, produced>>

\* lines 714-716: the wait times out and 4096 zero bytes are yielded
ListenerTimeout(l) ==
  /\ lpc[l] = "wait"
  /\ ~chunk_event
  /\ lpc' = [lpc EXCEPT ![l] = "loop"]
  /\ join_info' = [join_info EXCEPT ![l] = NoJoin]
  /\ UNCHANGED <<buffer_position, last_real, listeners, ctlVars, decodeVars,
                 bufferVars>>

\* lines 718-725: the client goes away while the generator is suspended
Disconnect(l) ==
  /\ lpc[l] \in {"loop", "wait"}
  /\ lpc' = [lpc EXCEPT ![l] = "off"]
  /\ listeners' = Discard(listeners, l)
  /\ join_info' = [join_info EXCEPT ![l] = NoJoin]
  /\ UNCHANGED <<buffer_position, last_real, ctlVars, decodeVars, bufferVars>>

\* ------------------------------------------------------------ specification

Control ==
  \/ AddToPlaylist
  \/ StartStream
  \/ AddDefaults
  \/ SkipTrack
  \/ StopBegin
  \/ StopFinish
  \/ StopIdle

Decoder ==
  \/ DecoderWrite
  \/ DecoderExit

Producer ==
  \/ ProducerInit
  \/ ProducerLoop
  \/ ProducerPoll
  \/ ProducerSpawn
  \/ ProducerResolveFail
  \/ ProducerSpawnFail
  \/ ProducerReadChunk
  \/ ProducerTrackEnd
  \/ ProducerCancelled

Listener(l) ==
  \/ Connect(l)
  \/ ListenerBegin(l)
  \/ ListenerStep(l)
  \/ ListenerWake(l)
  \/ ListenerTimeout(l)
  \/ Disconnect(l)

Next ==
  \/ Control
  \/ Decoder
  \/ Producer
  \/ \E l \in Listeners : Listener(l)

\* the whole system; the properties below are checked on its two projections
Spec == Init /\ [][Next]_vars

\* The producer, the decoder and the control endpoints read nothing a listener
\* writes, so what they do is the same with and without listeners.
NextDirector ==
  \/ Control
  \/ Decoder
  \/ Producer

SpecDirector == Init /\ [][NextDirector]_vars

\* the event loop runs the producer task whenever it can run, and a decoder
\* process ends: by the signal sent to it, or at the end of its input
SpecDirectorFair ==
  SpecDirector /\ WF_vars(Producer) /\ WF_vars(DecoderExit)

\* A listener reads audio_chunks, is_streaming and chunk_event only. Which
\* tracks are queued does not show in them: without the two endpoints that
\* only add tracks the producer appends, and the endpoints clear, in the same
\* ways.
NextBroadcast ==
  \/ StartStream
  \/ SkipTrack
  \/ StopBegin
  \/ StopFinish
  \/ StopIdle
  \/ Decoder
  \/ Producer
  \/ \E l \in Solo : Listener(l)

SpecBroadcast == Init /\ [][NextBroadcast]_vars

\* Two listeners on one stream that is started once and never stopped: what
\* they are delivered depends on the appends and on their own reads only.
NextProgram ==
  \/ StartStream
  \/ Decoder
  \/ ProducerInit
  \/ ProducerPoll
  \/ ProducerSpawn
  \/ ProducerReadChunk
  \/ ProducerTrackEnd
  \/ \E l \in Listeners : Listener(l)

SpecProgram == Init /\ [][NextProgram]_vars

TypeOK ==
  /\ is_streaming \in BOOLEAN
  /\ Len(audio_chunks) <= AudioChunksMaxLen
  /\ Len(playlist) <= PlaylistMaxLen
  /\ streaming_task \in {"none", "running", "done"}
  /\ ppc \in {"none", "init", "loop", "poll", "resolve", "decode"}
  /\ \A l \in Listeners : lpc[l] \in {"off", "connected", "loop", "wait"}

\* ------------------------------------------------------------ the buffer

\* C4: the buffer holds at most AudioChunksMaxLen chunks, and they are the most
\* recently appended chunks since the last clear, in the order of production.
C4_BufferIsRecentWindow ==
  LET n == Len(audio_chunks)
  IN  /\ n <= AudioChunksMaxLen
      /\ n = Min(AudioChunksMaxLen, produced)
      /\ \A i \in 1..n : audio_chunks[i] = produced - n + i

\* a full buffer has dropped its oldest chunk
C4_Witness ==
  /\ Len(audio_chunks) = AudioChunksMaxLen
  /\ produced > AudioChunksMaxLen

\* C5: the cursor value p (an index into audio_chunks) denotes the chunk that
\* was appended p-th after the last clear, whatever was appended since.
C5_CursorDenotesAppended ==
  \A pos \in 0..MaxProduced : HasAudioAhead(pos) => ReadAt(pos) = pos + 1

\* C10: a joining listener starts at max(0, latest - JoinBack), and with a
\* non-empty buffer latest - AudioChunksMaxLen <= cursor < latest.
C10_JoinCursor ==
  \A l \in Listeners :
    join_info[l].joined =>
      LET c == join_info[l].cursor
          latest == join_info[l].latest
      IN  /\ c = Max(0, latest - JoinBack)
          /\ latest > 0 => (latest - AudioChunksMaxLen <= c /\ c < latest)

\* a listener has joined at a full buffer, behind its end
C10_Witness ==
  \E l \in Listeners :
    /\ join_info[l].joined
    /\ join_info[l].latest = AudioChunksMaxLen
    /\ join_info[l].cursor > 0

\* ------------------------------------------------------------ delivery

\* a step in which listener l is delivered a real chunk
Delivers(l) == last_real'[l] > 0 /\ last_real'[l] # last_real[l]

\* C1: the real chunks a listener is delivered are consecutive in production
\* order: after chunk n the next real chunk is chunk n + 1.
C1_GapFree ==
  [][\A l \in Listeners :
       (Delivers(l) /\ last_real[l] > 0) => last_real'[l] = last_real[l] + 1]_vars

\* C2: a listener is never delivered a chunk that was produced before a chunk
\* it was delivered earlier (chunks of before a clear count as Older).
C2_NonDecreasing ==
  [][\A l \in Listeners :
       (last_real'[l] > 0 /\ last_real[l] # 0) => last_real'[l] >= last_real[l]]_vars

\* a listener has been delivered a chunk whose number is beyond its place in
\* the buffer: the buffer had dropped chunks before the read
C2_Witness ==
  \E l \in Listeners :
    /\ lpc[l] = "loop"
    /\ buffer_position[l] >= 2
    /\ last_real[l] > buffer_position[l]

\* C3: a connected listener is never in a state from which it can only emit
\* silence: its position stays below the greatest length the buffer can have,
\* so that `buffer_position < len(audio_chunks)` can hold again.
C3_NeverStuck ==
  \A l \in Listeners :
    lpc[l] \in {"loop", "wait"} => buffer_position[l] < AudioChunksMaxLen

\* ------------------------------------------------------------ program director

\* the decoder of the current track has been told to terminate, or is gone by
\* a signal, while the producer still reads from it
Skipped ==
  /\ is_streaming
  /\ ppc = "decode"
  /\ stream_process.state \in {"terminating", "killed"}

\* the producer makes a track current in this step
MakesCurrent ==
  ppc' = "resolve" /\ (ppc # "resolve" \/ current_track' # current_track)

SkippedIsLeft == Skipped ~> (ppc # "decode")

C7_ExhaustionNeverHalts ==
  /\ [](is_streaming => streaming_task = "running")
  /\ [](wait_count <= MaxWait)
  /\ [][(ProducerPoll /\ is_streaming /\ playlist = <<>>)
          => \/ /\ ppc' = "poll"
                /\ wait_count' = wait_count + 1
                /\ wait_count' <= MaxWait
             \/ /\ ppc' = "resolve"
                /\ current_track'.kind = "filler"]_vars

\* under SpecDirectorFair: a producer that is scheduled leaves the wait loop
\* with a track made current, unless streaming is switched off
WaitLoopIsLeft == (ppc = "poll") ~> (ppc = "resolve" \/ ~is_streaming)

\* the wait loop is at its last poll with the playlist still empty
C7_Witness ==
  /\ is_streaming
  /\ ppc = "poll"
  /\ playlist = <<>>
  /\ wait_count = MaxWait

\* C8: when the current track ends while a user-requested track is queued,
\* the track the producer makes current next is a user-requested one, not a
\* filler.
C8_UserPreemptsFiller ==
  [][(ProducerTrackEnd /\ MakesCurrent /\ \E i \in DOMAIN playlist : playlist[i].kind = "user")
       => current_track'.kind = "user"]_vars

\* C9: when the producer leaves a track whose decoder ended by itself, the
\* chunks appended for the track are all the chunks the decoder wrote (none is
\* left in the pipe), and with streaming on and a track queued the head of
\* the queue is made current.
C9_TrackEndComplete ==
  [][(ProducerTrackEnd /\ stream_process.state = "exited")
       => /\ chunk_count = chunk_count + stream_process.pipe
          /\ (is_streaming /\ playlist # <<>>)
               => /\ current_track' = Head(playlist)
                  /\ ppc' = "resolve"]_vars

\* ------------------------------------------------------------ stop

\* a stop_continuous_stream call (with the playlist.clear() of stop_stream
\* after it) returns in this step
StopReturns == StopFinish \/ StopIdle

\* where a stop leaves the program
StopEndState ==
  /\ ~is_streaming
  /\ current_track = NoTrack
  /\ streaming_task # "running"
  /\ stop_pc = "idle"

\* C11: when a stop returns with no task created since it was called, the
\* program is in the stop end state (not streaming, no current track, no
\* producer task running); and in that state a second stop can be called,
\* takes no error path and leaves every variable as it is.
C11_StopIdempotent ==
  /\ [][(StopReturns /\ streaming_task' # "running") => StopEndState']_vars
  /\ []((StopEndState /\ audio_chunks = <<>> /\ playlist = <<>>)
          => ENABLED (StopIdle /\ UNCHANGED vars))

\* a stop has returned after a decoder had been started
C11_Witness ==
  /\ StopEndState
  /\ audio_chunks = <<>>
  /\ playlist = <<>>
  /\ stream_process.state \in {"terminating", "killed", "exited"}

\* C12: a stop that returns leaves audio_chunks as it was.
C12_StopKeepsBuffer ==
  [][StopReturns => audio_chunks' = audio_chunks]_vars

\* ------------------------------------------------------------ sessions

\* C13: a pass of a listener's generator never ends the session, whether or
\* not the stream is running: with streaming off the listener is still served
\* (it yields, or waits for the event) and only a disconnect ends it.
C13_ServedWhenIdle ==
  [][\A l \in Listeners :
       (ListenerBegin(l) \/ ListenerStep(l)) => lpc'[l] # "off"]_vars

Retrying(t) == current_track.id = t /\ ppc \in {"resolve", "loop"}

\* C15: the producer does not go on retrying one track for ever: whatever the
\* track, again and again the producer is doing something other than getting
\* a source for it and queueing it again.
C15_BoundedRetry == \A t \in TrackIds : []<>~Retrying(t)

\* a failure of the track in hand: no source, no decoder, or the end of the
\* decoder (by a crash as by the end of its input)
TrackFails == ProducerResolveFail \/ ProducerSpawnFail \/ ProducerTrackEnd

\* C16: with streaming on, a failure of the track in hand leaves the producer
\* task running inside its loop; the task ends only with streaming switched
\* off or on a cancel.
C16_FailuresAbsorbed ==
  [][/\ (TrackFails /\ is_streaming)
          => /\ streaming_task' = "running"
             /\ ppc' \in {"loop", "poll", "resolve"}
     /\ (streaming_task = "running" /\ streaming_task' # "running")
          => (~is_streaming \/ cancel_req)]_vars

\* a track whose source could not be obtained is queued again, the loop goes on
C16_Witness ==
  /\ is_streaming
  /\ ppc = "loop"
  /\ \E i \in DOMAIN playlist : playlist[i] = current_track

\* ------------------------------------------------------------ same program

\* listener l has been delivered a real chunk in this session; it was read at
\* position buffer_position[l] - 1
HasReal(l) == lpc[l] # "off" /\ last_real[l] > 0

\* C17: two connected listeners whose last real chunk was read at the same
\* position were delivered the same chunk.
C17_SameProgram ==
  \A l1, l2 \in Listeners :
    (HasReal(l1) /\ HasReal(l2) /\ buffer_position[l1] = buffer_position[l2])
      => last_real[l1] = last_real[l2]

\* ------------------------------------------------------------ one decoder

\* a decoder process that has not fully terminated
StillThere(p) == p.state \in {"alive", "terminating"}

\* C18: a chunk is appended only from the decoder started for the track that
\* is current; a track is made current, and a decoder is started, only when
\* the decoder started before has fully terminated.
C18_NoInterleave ==
  [][/\ ProducerReadChunk => stream_process.track = current_track.id
     /\ MakesCurrent => ~StillThere(stream_process)
     /\ ProducerSpawn => ~StillThere(stream_process)]_vars

\* ------------------------------------------------------------ notification

\* C19: every append of a chunk leaves chunk_event set.
C19_EventOnEveryAppend ==
  [][ProducerReadChunk => chunk_event']_vars

\* ------------------------------------------------------------ queue order

\* q continues the queue pl in FIFO order: what is left of pl is at the head
\* of q in the order it had, tracks have gone from the head of pl only, and
\* only to make room in a full queue
ContinuesFifo(pl, q) ==
  \E k \in 0..Len(pl) :
    /\ Len(q) >= Len(pl) - k
    /\ SubSeq(q, 1, Len(pl) - k) = SubSeq(pl, k + 1, Len(pl))
    /\ k > 0 => Len(q) = PlaylistMaxLen

\* C20: the playlist is a FIFO queue: but for the clear of a stop, a step
\* adds tracks at its tail only, and the track the producer makes current is
\* the head of the queue, the rest of the queue staying as it is (the poll
\* that times out adds the default songs first, and takes the head of the
\* queue so continued).
C20_FifoOrder ==
  [][~StopReturns =>
       IF MakesCurrent
       THEN IF ProducerPoll /\ PollTimedOut(wait_count + 1)
            THEN ContinuesFifo(playlist, <<current_track'>> \o playlist')
            ELSE <<current_track'>> \o playlist' = playlist
       ELSE ContinuesFifo(playlist, playlist')]_vars

\* a filler track was made current ahead of the user track queued behind it
C20_Witness ==
  /\ ppc = "resolve"
  /\ current_track.kind = "filler"
  /\ playlist # <<>>
  /\ playlist[1].kind = "user"

SessionEnds(l) == lpc[l] # "off" /\ lpc'[l] = "off"

\* C22: the end of one listener's session removes only that listener's id
\* from the listener set and changes neither the buffer, the playlist,
\* current_track, is_streaming, the producer task, the decoder, the chunk
\* event, nor the position, the cursor or the last chunk delivered of any
\* other listener.
C22_DisconnectIsLocal ==
  [][\A l \in Listeners :
       SessionEnds(l) =>
         /\ listeners' = listeners \ {l}
         /\ UNCHANGED <<ctlVars, decodeVars, bufferVars>>
         /\ \A m \in Listeners \ {l} :
              /\ lpc'[m] = lpc[m]
              /\ buffer_position'[m] = buffer_position[m]
              /\ last_real'[m] = last_real[m]
              /\ join_info'[m] = join_info[m]
              /\ (m \in listeners') = (m \in listeners)]_vars

\* one listener has gone after it was delivered audio while the other is
\* still counted and in the middle of the programme
C22_Witness ==
  \E l \in Listeners : \E m \in Listeners \ {l} :
    /\ lpc[l] = "off"
    /\ last_real[l] > 0
    /\ l \notin listeners
    /\ m \in listeners
    /\ lpc[m] = "loop"
    /\ last_real[m] > 0
    /\ is_streaming

\* C23: while is_streaming is false a skip is rejected (HTTP 400): the part
\* of skip_track that acts on the decoder cannot be taken, so the playlist,
\* current_track, the buffer and the decoder process stay as they were; and
\* a skip that is carried out starts from a state with is_streaming set.
C23_SkipRejectedWhenIdle ==
  /\ [](~is_streaming => ~ENABLED SkipTrack)
  /\ [][SkipTrack => is_streaming]_vars

\* the stream has been switched off by a stop that still waits for the task,
\* with a track current and its decoder there: a skip now is turned away
C23_Witness ==
  /\ ~is_streaming
  /\ stop_pc = "awaiting"
  /\ current_track # NoTrack
  /\ stream_process.state = "terminating"
  /\ ~ENABLED SkipTrack

\* a continuous_radio_loop task is created: the task is at its first line
\* and either was not there or was further on
TaskCreated ==
  /\ streaming_task' = "running"
  /\ ppc' = "init"
  /\ (streaming_task # "running" \/ ppc # "init")

\* C24: at most one producer loop exists at any time: a task is created only
\* when the task before it has finished or none was ever created, whatever
\* the interleaving of start, play and stop calls; and the buffer has a single
\* writer, since a chunk is appended only by a step of the one task.
C24_SingleProducer ==
  /\ [][TaskCreated => (streaming_task # "running" /\ ppc = "none")]_vars
  /\ [][Len(audio_chunks') > Len(audio_chunks) => ProducerReadChunk]_vars
  /\ [](ppc # "none" <=> streaming_task = "running")

\* a second task has been created after the first one, which had spawned a
\* decoder, was cancelled by a stop that has not returned yet
C24_Witness ==
  /\ streaming_task = "running"
  /\ ppc = "init"
  /\ stop_pc = "ready"
  /\ stream_process.state \in {"terminating", "killed", "exited"}

\* the track pl[i] is one of the tracks of the playlist q
StaysIn(pl, i, q) == \E j \in DOMAIN q : q[j] = pl[i]

\* C25: a track a listener queued stays in the playlist until the producer
\* dequeues it or a stop clears the playlist: every step that is not the
\* return of a stop keeps each pending user track in the playlist or makes
\* it the current track.
C25_PendingStays ==
  [][\A i \in DOMAIN playlist :
       playlist[i].kind = "user" =>
         \/ StaysIn(playlist, i, playlist')
         \/ (MakesCurrent /\ current_track' = playlist[i])
         \/ StopReturns]_vars

\* C26: a listener yields the silence filler only when it has caught up with
\* the buffer: at a timeout of the wait no chunk at or after the listener's
\* position is waiting in audio_chunks.
C26_SilenceOnlyWhenCaughtUp ==
  [][\A l \in Solo :
       ListenerTimeout(l) => ~HasAudioAhead(buffer_position[l])]_vars

\* the listener's pass of the loop from position pos reads the buffer
ReadsAt(l, pos) ==
  /\ ListenerBegin(l) \/ ListenerStep(l)
  /\ is_streaming
  /\ HasAudioAhead(pos)

\* the position a pass of listener l starts from
PassPosition(l) ==
  IF lpc[l] = "connected" THEN InitialPosition(Len(audio_chunks))
  ELSE buffer_position[l]

\* C27: whenever a listener reads audio_chunks[buffer_position], the position
\* is a valid index of the buffer at that moment, whatever appends and clears
\* came between its passes: the read yields the chunk stored there, and no
\* session ends while the stream runs because of a read.
C27_ReadIndexValid ==
  [][\A l \in Solo :
       /\ ReadsAt(l, PassPosition(l)) =>
            /\ ValidIndex(PassPosition(l))
            /\ lpc'[l] = "loop"
            /\ last_real'[l] = audio_chunks[PassPosition(l) + 1]
            /\ buffer_position'[l] = PassPosition(l) + 1
       /\ ((ListenerBegin(l) \/ ListenerStep(l)) /\ is_streaming) =>
            lpc'[l] # "off"]_vars

\* a listener that was delivered audio outlived a stop and a start: the
\* buffer was cleared and refilled, the listener's position lies beyond the
\* end of the buffer, and its pass of the loop has declined to read
C27_Witness ==
  \E l \in Solo :
    /\ is_streaming
    /\ lpc[l] = "wait"
    /\ last_real[l] = Older
    /\ Len(audio_chunks) > 0
    /\ buffer_position[l] > Len(audio_chunks)

====
